---- MODULE Spec2Model ----
(***************************************************************************)
(* AOI resolution of Project Zeno: the catalog build of                    *)
(* scripts/create_gadm_plus.sql (and its earlier single-table version),    *)
(* the spatial query pattern that expands an AOI into subregions, the      *)
(* unified search function search_ontario_areas, the location tool of     *)
(* nbs/01_location-tool.ipynb, the repository's shell scripts (test        *)
(* runner, evaluations, land cover merge, database init) and the WebSocket *)
(* test page.                                                              *)
(***************************************************************************)
EXTENDS Integers, Sequences, FiniteSets, TLC

VARIABLES
    variant,     \* which version of the processing script the database uses
    src,         \* the four source tables: source -> sequence of rows
    geomcol,     \* source -> whether the table still has its geometry column
    std,         \* source -> whether the table has the *_id, name, subtype columns
    gadm_plus,   \* the catalog table (NoTable when it does not exist)
    geometries,  \* the geometry table (NoTable when it does not exist)
    gpBuild,     \* the run that created gadm_plus (0: none)
    geoBuild,    \* the run that created geometries (0: none)
    pc,          \* the statement the script is at
    run,         \* number of script runs started
    errored,     \* whether a statement of the current run raised an error
    seen,        \* what the last reader of the two tables found
    expand,      \* the response of the last subregion query
    ont,         \* the Ontario area tables: type -> sequence of rows
    found,       \* the response of the last search_ontario_areas call
    catalog,     \* the places the location matcher was loaded with
    tool,        \* the outcome of the last call of the location tool
    pair,        \* the results of two searches that differ in threshold only
    again,       \* the response of search_ontario_areas called a second time
    dbs,         \* the databases of the PostgreSQL server, beside postgres
    sh,          \* the last run of a shell script: what it did and how it ended
    ws,          \* the page's current WebSocket (0: undefined)
    sockets,     \* the readyState of each WebSocket the page has created
    connectionStatus,   \* the text of the page's status line
    connectedClientId,  \* the client id of the last connection request
    messages     \* the entries of the page's message log

buildVars == <<variant, src, geomcol, std, gadm_plus, geometries, gpBuild,
               geoBuild, pc, run, errored>>

\* what the processing script never touches
ontVars == <<ont, found, again>>

toolVars == <<catalog, tool, pair>>

\* the shell scripts of the repository and the server they act on
shellVars == <<dbs, sh>>

\* the WebSocket test page
pageVars == <<ws, sockets, connectionStatus, connectedClientId, messages>>

opsVars == <<shellVars, pageVars>>

queryVars == <<seen, expand, ontVars, toolVars, opsVars>>

----------------------------------------------------------------------------
(* Bounds *)

\* rows over the four source tables together
MaxRows == 2
\* rows over the Ontario area tables together
MaxOntRows == 2
\* places the location matcher is loaded with
MaxPlaces == 2
\* the largest limit a search is called with
MaxLimit == 2
\* runs of the processing script on one database
MaxRuns == 2
\* WebSockets the page creates
MaxSockets == 3

----------------------------------------------------------------------------
(* Values *)

Sources == {"gadm", "kba", "landmark", "wdpa"}
SourceOrder == <<"gadm", "kba", "landmark", "wdpa">>
Derived == {"kba", "landmark", "wdpa"}

Range(f) == { f[i] : i \in DOMAIN f }

\* a table that does not exist
NoTable == <<[absent |-> TRUE]>>

\* no script has been run
NoRun == [script |-> "none"]

\* no query has been answered since the last statement
NoCall == [outcome |-> "none"]

\* a geometry is the set of cells it covers; SQL NULL is the empty set
Cells == {1, 2}
NullGeom == {}
Geoms == (SUBSET Cells) \ {NullGeom}

\* a text column value is <<s>>; SQL NULL is <<>>
NullText == <<>>
Text(s) == <<s>>

GadmSubtypes ==
    <<"country", "state", "district", "municipality", "locality", "neighbourhood">>

\* the subtype constant the script gives each derived source
SubtypeOf(s) ==
    CASE s = "kba"      -> "key-biodiversity-area"
      [] s = "landmark" -> "indigenous-and-community-land"
      [] s = "wdpa"     -> "protected-area"

\* concat_ws(sep, a, b, c): the non-NULL arguments joined by sep
RECURSIVE Join(_, _)
Join(sep, strs) ==
    IF strs = <<>> THEN ""
    ELSE IF Len(strs) = 1 THEN strs[1]
    ELSE strs[1] \o sep \o Join(sep, Tail(strs))

RECURSIVE Flatten(_)
Flatten(seqs) ==
    IF seqs = <<>> THEN <<>> ELSE seqs[1] \o Flatten(Tail(seqs))

ConcatWs(sep, args) == Join(sep, Flatten(args))

\* the name components of the raw records used in this model
CompPool == { <<Text("Serra"), Text("Range"), Text("BRA")>> }
GadmNames == {"Brazil"}

----------------------------------------------------------------------------
(* The processing script *)

\* UPDATE t SET name = concat_ws(', ', c1, c2, c3); UPDATE t SET subtype = ...
StandardizedRow(s, r) ==
    [r EXCEPT !.name = ConcatWs(", ", r.comps), !.subtype = SubtypeOf(s)]

StandardizedTable(s, t) == [i \in DOMAIN t |-> StandardizedRow(s, t[i])]

ProvenanceFlagsKbaAsGadm(s) ==
    [is_gadm |-> s \in {"gadm", "kba"}, is_kba |-> s = "kba",
     is_landmark |-> s = "landmark", is_wdpa |-> s = "wdpa"]

\* the four literal flag columns of each SELECT of the union
ProvenanceFlags(s) ==
    [is_gadm |-> s = "gadm", is_kba |-> s = "kba",
     is_landmark |-> s = "landmark", is_wdpa |-> s = "wdpa"]

\* every SELECT labelled 'gadm'
GeometryBranchAllGadm(s) ==
    LET keep == SelectSeq(src[s], LAMBDA r : r.geometry # NullGeom)
    IN  [i \in DOMAIN keep |->
            [source |-> "gadm", src_id |-> keep[i].id, geometry |-> keep[i].geometry]]

\* SELECT 'x' AS source, x_id AS src_id, geometry FROM x WHERE geometry IS NOT NULL
GeometryBranch(s) ==
    LET keep == SelectSeq(src[s], LAMBDA r : r.geometry # NullGeom)
    IN  [i \in DOMAIN keep |->
            [source |-> s, src_id |-> keep[i].id, geometry |-> keep[i].geometry]]

\* SELECT 'x' AS source, x_id AS src_id, name, subtype, flags FROM x
MetadataBranch(s) ==
    [i \in DOMAIN src[s] |->
        [source |-> s, src_id |-> src[s][i].id, name |-> src[s][i].name,
         subtype |-> src[s][i].subtype] @@ ProvenanceFlags(s)]

\* the same SELECT of the single-table script, which also takes geometry
SingleBranch(s) ==
    [i \in DOMAIN src[s] |->
        [source |-> s, src_id |-> src[s][i].id, name |-> src[s][i].name,
         subtype |-> src[s][i].subtype, geometry |-> src[s][i].geometry]
        @@ ProvenanceFlags(s)]

\* the last SELECT of the union left out
UnionAllWithoutWdpa(b) == b["gadm"] \o b["kba"] \o b["landmark"]

\* b[gadm] UNION ALL b[kba] UNION ALL b[landmark] UNION ALL b[wdpa], b the
\* SELECT of each source
UnionAll(b) == b["gadm"] \o b["kba"] \o b["landmark"] \o b["wdpa"]

\* SELECT row_number() OVER () AS id, * FROM rows
RowNumber(rows) == [i \in DOMAIN rows |-> [id |-> i] @@ rows[i]]

AllGeomCols == \A s \in Sources : geomcol[s]

\* a statement raised an error: the shell goes on with the next statement,
\* or stops when it was told to bail
OnError(next) ==
    /\ errored' = TRUE
    /\ pc' \in {next, "failed"}

Proceed(next) ==
    /\ pc' = next
    /\ UNCHANGED errored

\* duckdb basemaps.duckdb < create_gadm_plus.sql
Start ==
    /\ pc \in {"idle", "done", "failed"}
    /\ run < MaxRuns
    /\ run' = run + 1
    /\ errored' = FALSE
    /\ pc' = IF variant = "split" THEN "drop_gp" ELSE "std_kba"
    /\ UNCHANGED queryVars
    /\ UNCHANGED <<variant, src, geomcol, std, gadm_plus, geometries, gpBuild, geoBuild>>

NextStd(s) ==
    CASE s = "kba" -> "std_landmark"
      [] s = "landmark" -> "std_wdpa"
      [] s = "wdpa" -> "drop_gp"

\* the RENAME / ADD COLUMN / UPDATE statements of one source table
Standardize(s) ==
    /\ pc = "std_" \o s
    /\ IF std[s]
       THEN \* RENAME COLUMN id: the column is gone; ADD COLUMN name: it exists
            /\ OnError(NextStd(s))
            /\ src' = IF pc' = "failed" THEN src
                      ELSE [src EXCEPT ![s] = StandardizedTable(s, src[s])]
            /\ UNCHANGED std
       ELSE /\ Proceed(NextStd(s))
            /\ src' = [src EXCEPT ![s] = StandardizedTable(s, src[s])]
            /\ std' = [std EXCEPT ![s] = TRUE]
    /\ UNCHANGED queryVars
    /\ UNCHANGED <<variant, geomcol, gadm_plus, geometries, gpBuild, geoBuild, run>>

\* DROP TABLE IF EXISTS gadm_plus
DropGadmPlus ==
    /\ pc = "drop_gp"
    /\ gadm_plus' = NoTable
    /\ gpBuild' = 0
    /\ Proceed(IF variant = "split" THEN "drop_geo" ELSE "create_gp")
    /\ UNCHANGED queryVars
    /\ UNCHANGED <<variant, src, geomcol, std, geometries, geoBuild, run>>

\* DROP TABLE IF EXISTS geometries
DropGeometries ==
    /\ pc = "drop_geo"
    /\ geometries' = NoTable
    /\ geoBuild' = 0
    /\ Proceed("create_geo")
    /\ UNCHANGED queryVars
    /\ UNCHANGED <<variant, src, geomcol, std, gadm_plus, gpBuild, run>>

\* CREATE OR REPLACE TABLE geometries AS ... (binder error when a source
\* table has no geometry column)
CreateGeometries ==
    /\ pc = "create_geo"
    /\ IF AllGeomCols
       THEN /\ geometries' = RowNumber(UnionAll([s \in Sources |-> GeometryBranch(s)]))
            /\ geoBuild' = run
            /\ Proceed("alter_gadm")
       ELSE /\ OnError("alter_gadm")
            /\ UNCHANGED <<geometries, geoBuild>>
    /\ UNCHANGED queryVars
    /\ UNCHANGED <<variant, src, geomcol, std, gadm_plus, gpBuild, run>>

NextAlter(s) ==
    CASE s = "gadm" -> "alter_kba"
      [] s = "kba" -> "alter_landmark"
      [] s = "landmark" -> "alter_wdpa"
      [] s = "wdpa" -> "create_gp"

\* ALTER TABLE s DROP COLUMN IF EXISTS geometry
DropGeometryColumn(s) ==
    /\ pc = "alter_" \o s
    /\ geomcol' = [geomcol EXCEPT ![s] = FALSE]
    /\ Proceed(NextAlter(s))
    /\ UNCHANGED queryVars
    /\ UNCHANGED <<variant, src, std, gadm_plus, geometries, gpBuild, geoBuild, run>>

\* CREATE OR REPLACE TABLE gadm_plus AS ...
CreateGadmPlus ==
    /\ pc = "create_gp"
    /\ IF variant = "split"
       THEN /\ gadm_plus' = RowNumber(UnionAll([s \in Sources |-> MetadataBranch(s)]))
            /\ gpBuild' = run
            /\ Proceed("index")
       ELSE IF AllGeomCols /\ \A s \in Derived : std[s]
       THEN /\ gadm_plus' = RowNumber(UnionAll([s \in Sources |-> SingleBranch(s)]))
            /\ gpBuild' = run
            /\ Proceed("index")
       ELSE /\ OnError("index")
            /\ UNCHANGED <<gadm_plus, gpBuild>>
    /\ UNCHANGED queryVars
    /\ UNCHANGED <<variant, src, geomcol, std, geometries, geoBuild, run>>

\* CREATE INDEX IF NOT EXISTS ... (an error when the indexed table is missing)
CreateIndexes ==
    /\ pc = "index"
    /\ LET missing == IF variant = "split" THEN geometries = NoTable
                      ELSE gadm_plus = NoTable
       IN  IF missing THEN OnError("done") ELSE Proceed("done")
    /\ UNCHANGED queryVars
    /\ UNCHANGED <<variant, src, geomcol, std, gadm_plus, geometries, gpBuild, geoBuild, run>>

----------------------------------------------------------------------------
(* Step 0: the raw data is loaded again *)

\* python scripts/ingest_basemaps_to_duckdb.py: the source tables are created
\* again from the same raw data, with their geometry
Ingest ==
    /\ pc \in {"done", "failed"}
    /\ \E s \in Sources : ~geomcol[s]
    /\ geomcol' = [s \in Sources |-> TRUE]
    /\ UNCHANGED <<variant, src, std, gadm_plus, geometries, gpBuild, geoBuild, pc, run, errored>>
    /\ UNCHANGED queryVars

----------------------------------------------------------------------------
(* A reader of the processed tables (AOI search reads gadm_plus, the *)
(* geometry lookup reads geometries) *)

\* readers exist once the first run has left a catalog behind
ReadTables ==
    /\ run > 1 \/ (run = 1 /\ pc = "done")
    /\ seen' = [gadm_plus |-> gadm_plus # NoTable, geometries |-> geometries # NoTable,
                gpBuild |-> gpBuild, geoBuild |-> geoBuild]
    /\ UNCHANGED <<buildVars, expand, ontVars, toolVars, opsVars>>

----------------------------------------------------------------------------
(* The spatial query pattern: subregions of an AOI *)

ST_Intersects(a, b) == a # NullGeom /\ b # NullGeom /\ a \cap b # {}

\* ST_Within(a, b): a lies entirely in b (NULL, here the empty set, is never within)
ST_Within(a, b) == a # NullGeom /\ b # NullGeom /\ a \subseteq b

AoiCteAnyId(aoi_source, aoi_id) ==
    SelectSeq(geometries, LAMBDA g : g.source = aoi_source)

\* WITH aoi AS (SELECT geometry FROM geometries WHERE source = .. AND src_id = ..)
AoiCte(aoi_source, aoi_id) ==
    SelectSeq(geometries, LAMBDA g : g.source = aoi_source /\ g.src_id = aoi_id)

RECURSIVE Repeat(_, _)
Repeat(x, n) == IF n = 0 THEN <<>> ELSE <<x>> \o Repeat(x, n - 1)

\* SELECT t.* FROM t JOIN geometries g ON t.id = g.src_id AND g.source = 't'
\* CROSS JOIN aoi WHERE ST_Within(g.geometry, aoi.geometry)
SubregionRows(aoi_source, aoi_id, target) ==
    LET t   == src[target]
        aoi == AoiCte(aoi_source, aoi_id)
        hits(i) == { <<j, k>> \in (DOMAIN geometries) \X (DOMAIN aoi) :
                       /\ geometries[j].src_id = t[i].id
                       /\ geometries[j].source = target
                       /\ ST_Within(geometries[j].geometry, aoi[k].geometry) }
    IN  Flatten([i \in DOMAIN t |-> Repeat(t[i], Cardinality(hits(i)))])

\* the AOI row taken out of the table by the query (DELETE .. RETURNING in
\* place of SELECT)
ExpandSubregionDeleting(aoi_source, aoi_id, target) ==
    /\ variant = "split"
    /\ expand = NoCall
    /\ geometries # NoTable
    /\ expand' = [outcome |-> "ok", aoi_source |-> aoi_source, aoi_id |-> aoi_id,
                  target |-> target,
                  rows |-> SubregionRows(aoi_source, aoi_id, target)]
    /\ geometries' = SelectSeq(geometries,
                         LAMBDA g : ~(g.source = aoi_source /\ g.src_id = aoi_id))
    /\ UNCHANGED <<variant, src, geomcol, std, gadm_plus, gpBuild, geoBuild, pc, run,
                   errored, seen, ontVars, toolVars, opsVars>>

ExpandSubregion(aoi_source, aoi_id, target) ==
    /\ variant = "split"
    /\ expand = NoCall
    /\ expand' =
         IF geometries = NoTable
         THEN [outcome |-> "error", aoi_source |-> aoi_source, aoi_id |-> aoi_id,
               target |-> target, rows |-> <<>>]
         ELSE [outcome |-> "ok", aoi_source |-> aoi_source, aoi_id |-> aoi_id,
               target |-> target,
               rows |-> SubregionRows(aoi_source, aoi_id, target)]
    /\ UNCHANGED <<buildVars, seen, ontVars, toolVars, opsVars>>

----------------------------------------------------------------------------
(* Text: a string is a sequence of characters *)

Letters == {"a", "b", "A", "B"}

Lower(c) == CASE c = "A" -> "a" [] c = "B" -> "b" [] OTHER -> c

LowerStr(str) == [i \in DOMAIN str |-> Lower(str[i])]

\* s ILIKE p: "%" matches any run of characters, "_" any one character,
\* letters match without regard to case
RECURSIVE ILike(_, _)
ILike(str, pat) ==
    IF pat = <<>> THEN str = <<>>
    ELSE IF Head(pat) = "%"
         THEN ILike(str, Tail(pat)) \/ (str # <<>> /\ ILike(Tail(str), pat))
    ELSE IF str = <<>> THEN FALSE
    ELSE IF Head(pat) = "_" THEN ILike(Tail(str), Tail(pat))
    ELSE Lower(Head(pat)) = Lower(Head(str)) /\ ILike(Tail(str), Tail(pat))

\* name ILIKE '%' || search_query || '%'
ILikeContains(name, search_query) == ILike(name, <<"%">> \o search_query \o <<"%">>)

\* pg_trgm: the words of a string are its maximal runs of letters
RECURSIVE Words(_, _)
Words(str, word) ==
    IF str = <<>> THEN (IF word = <<>> THEN {} ELSE {word})
    ELSE IF Head(str) \in Letters
         THEN Words(Tail(str), Append(word, Lower(Head(str))))
         ELSE (IF word = <<>> THEN {} ELSE {word}) \cup Words(Tail(str), <<>>)

\* pg_trgm: each word is padded with two blanks before and one after, and
\* gives its runs of three characters
WordTrigrams(w) ==
    LET padded == <<" ", " ">> \o w \o <<" ">>
    IN  { SubSeq(padded, i, i + 2) : i \in 1..(Len(padded) - 2) }

Trigrams(str) == UNION { WordTrigrams(w) : w \in Words(str, <<>>) }

\* similarity(a, b): shared trigrams over all trigrams, as <<numerator, denominator>>
Similarity(a, b) ==
    LET ta == Trigrams(a)
        tb == Trigrams(b)
    IN  IF ta = {} \/ tb = {} THEN <<0, 1>>
        ELSE <<Cardinality(ta \cap tb), Cardinality(ta \cup tb)>>

\* relevance x is greater than (equal to) relevance y
RelGreater(x, y) == x[1] * y[2] > y[1] * x[2]
RelEqual(x, y) == x[1] * y[2] = y[1] * x[2]

----------------------------------------------------------------------------
(* search_ontario_areas *)

SearchedTypes ==
    <<"provincial_park", "conservation_reserve", "conservation_authority", "municipality">>

\* the area tables with a name column that the function does not read
OtherTypes == <<"watershed", "forest_management_unit", "waterbody", "wetland">>

OntTypes == SearchedTypes \o OtherTypes

\* area_types IS NULL
NullTypes == [null |-> TRUE, types |-> {}]
TypeArray(ts) == [null |-> FALSE, types |-> ts]

\* similarity(name, search_query) > 0.3
AboveCutoff(rel) == 10 * rel[1] > 3 * rel[2]

\* the WHERE clause with the test of area_types left out
MatchesIgnoringTypes(type, row, search_query, area_types) ==
    \/ ILikeContains(row.name, search_query)
    \/ /\ type = "conservation_authority"
       /\ row.acronym # NullText
       /\ ILikeContains(row.acronym[1], search_query)
    \/ AboveCutoff(Similarity(row.name, search_query))

\* the WHERE clause of one SELECT of the union
Matches(type, row, search_query, area_types) ==
    /\ area_types.null \/ type \in area_types.types
    /\ \/ ILikeContains(row.name, search_query)
       \/ /\ type = "conservation_authority"
          /\ row.acronym # NullText
          /\ ILikeContains(row.acronym[1], search_query)
       \/ AboveCutoff(Similarity(row.name, search_query))

\* one SELECT of the union: the rows of one table that match
Branch(type, search_query, area_types) ==
    LET t    == ont[type]
        keep == SelectSeq(t, LAMBDA r : Matches(type, r, search_query, area_types))
    IN  [i \in DOMAIN keep |->
            [id |-> keep[i].id, name |-> keep[i].name, type |-> type,
             relevance |-> Similarity(keep[i].name, search_query)]]

\* the four SELECTs, UNION ALL
Unioned(search_query, area_types) ==
    Branch("provincial_park", search_query, area_types)
    \o Branch("conservation_reserve", search_query, area_types)
    \o Branch("conservation_authority", search_query, area_types)
    \o Branch("municipality", search_query, area_types)

Perms(n) ==
    { p \in [1..n -> 1..n] : \A i, j \in 1..n : i # j => p[i] # p[j] }

AnyOrder(rows) == { [i \in DOMAIN rows |-> rows[p[i]]] : p \in Perms(Len(rows)) }

\* the rows as the union gives them, the ORDER BY left out
UnionOrder(rows) == { rows }

\* ORDER BY relevance DESC: any order of the rows in which relevance never
\* increases (rows of equal relevance come in an order SQL leaves open)
OrderByRelevanceDesc(rows) ==
    { o \in AnyOrder(rows) :
        \A i \in 1..(Len(o) - 1) : ~RelGreater(o[i + 1].relevance, o[i].relevance) }

Min(a, b) == IF a < b THEN a ELSE b

\* LIMIT limit_count
Limit(rows, limit_count) == SubSeq(rows, 1, Min(limit_count, Len(rows)))

SearchOntarioAreas(search_query, area_types, region, limit_count) ==
    /\ found = NoCall
    /\ \E o \in OrderByRelevanceDesc(Unioned(search_query, area_types)) :
         found' = [outcome |-> "ok", search_query |-> search_query,
                   area_types |-> area_types, region |-> region,
                   limit_count |-> limit_count,
                   rows |-> Limit(o, limit_count)]
    /\ UNCHANGED <<buildVars, seen, expand, ont, again, toolVars, opsVars>>

\* the same call once more: the arguments of the answered call, the tables
\* unchanged
SearchOntarioAreasAgain ==
    /\ found # NoCall
    /\ again = NoCall
    /\ \E o \in OrderByRelevanceDesc(Unioned(found.search_query, found.area_types)) :
         again' = [outcome |-> "ok", rows |-> Limit(o, found.limit_count)]
    /\ UNCHANGED <<buildVars, seen, expand, ont, found, toolVars, opsVars>>

----------------------------------------------------------------------------
(* The matcher behind the location tool: search(query, threshold, *)
(* subtype_filter, limit) *)

\* query appears literally inside name, case-insensitive
ContainsText(name, query) ==
    \E i \in 0..(Len(name) - Len(query)) :
        LowerStr(SubSeq(name, i + 1, i + Len(query))) = LowerStr(query)

\* the comparison turned around
ScoreAtMost(rel, threshold) == 100 * rel[1] <= threshold * rel[2]

\* the similarity score, 0..100, is at or above the threshold
ScoreAtLeast(rel, threshold) == 100 * rel[1] >= threshold * rel[2]

\* more specific subtypes have the higher rank
Specificity(subtype) ==
    CASE subtype = "country" -> 0
      [] subtype = "state" -> 1
      [] subtype = "district" -> 2
      [] subtype = "municipality" -> 3
      [] subtype = "locality" -> 4
      [] subtype = "neighbourhood" -> 5
      [] OTHER -> 0

\* the catalog entries with their similarity to the query
Scored(query) ==
    [i \in DOMAIN catalog |->
        [id |-> catalog[i].id, name |-> catalog[i].name, subtype |-> catalog[i].subtype,
         relevance |-> Similarity(catalog[i].name, query)]]

\* a candidate is included if it passes either pass
Passes(r, query, threshold, subtype_filter) ==
    /\ subtype_filter = {} \/ r.subtype \in subtype_filter
    /\ \/ ContainsText(r.name, query)
       \/ ScoreAtLeast(r.relevance, threshold)

Candidates(query, threshold, subtype_filter) ==
    SelectSeq(Scored(query), LAMBDA r : Passes(r, query, threshold, subtype_filter))

\* descending by score, ties broken by subtype specificity
Ranked(rows) ==
    { o \in AnyOrder(rows) :
        \A i \in 1..(Len(o) - 1) :
            \/ RelGreater(o[i].relevance, o[i + 1].relevance)
            \/ /\ RelEqual(o[i].relevance, o[i + 1].relevance)
               /\ Specificity(o[i].subtype) >= Specificity(o[i + 1].subtype) }

\* the result lists search may return
SearchResults(query, threshold, subtype_filter, limit) ==
    { Limit(o, limit) : o \in Ranked(Candidates(query, threshold, subtype_filter)) }

\* empty query and out-of-range threshold are the caller's contract violations
InvalidArgument(query, threshold) == query = <<>> \/ threshold \notin 0..100

\* the limit the tool's call leaves to the matcher
DefaultLimit == 10

----------------------------------------------------------------------------
(* nbs/01_location-tool.ipynb *)

\* a threshold argument is <<t>>; <<>> when the caller leaves it out
Omitted == <<>>

DefaultThreshold == 70

LocationInputValidNoUpperBound(threshold) ==
    threshold = Omitted \/ threshold[1] >= 0

\* threshold: int = Field(default=70, ge=0, le=100)
LocationInputValid(threshold) ==
    threshold = Omitted \/ (threshold[1] >= 0 /\ threshold[1] <= 100)

ThresholdOf(threshold) ==
    IF threshold = Omitted THEN DefaultThreshold ELSE threshold[1]

\* location_tool.invoke({"query": .., "threshold": ..}); store_fails: the
\* matcher cannot read its data
LocationTool(query, threshold, store_fails) ==
    /\ tool = NoCall /\ pair = NoCall
    /\ IF ~LocationInputValid(threshold)
       THEN \* the schema rejects the input: the function body does not run
            tool' = [outcome |-> "raised", error |-> "ValidationError",
                     query |-> query, threshold |-> threshold,
                     matcher_called |-> FALSE, matcher_threshold |-> -1,
                     value |-> "none", rows |-> <<>>]
       ELSE LET t == ThresholdOf(threshold)
            IN  IF store_fails \/ InvalidArgument(query, t)
                THEN \* except Exception as e: return f"Error finding locations: ..."
                     tool' = [outcome |-> "returned", error |-> "none",
                              query |-> query, threshold |-> threshold,
                              matcher_called |-> TRUE, matcher_threshold |-> t,
                              value |-> "message", rows |-> <<>>]
                ELSE \E r \in SearchResults(query, t, {}, DefaultLimit) :
                     tool' = [outcome |-> "returned", error |-> "none",
                              query |-> query, threshold |-> threshold,
                              matcher_called |-> TRUE, matcher_threshold |-> t,
                              value |-> "matches", rows |-> r]
    /\ UNCHANGED <<buildVars, seen, expand, ontVars, catalog, pair, opsVars>>

\* search(query, t1, filter, limit) and search(query, t2, filter, limit), t1 <= t2
SearchTwice(query, t1, t2, subtype_filter, limit) ==
    /\ tool = NoCall /\ pair = NoCall
    /\ t1 <= t2
    /\ ~InvalidArgument(query, t1) /\ ~InvalidArgument(query, t2)
    /\ \E ord \in Ranked(Scored(query)) :
         \* both calls rank the entries of the one catalog alike
         LET result(t) ==
                 Limit(SelectSeq(ord, LAMBDA r : Passes(r, query, t, subtype_filter)), limit)
         IN  pair' = [outcome |-> "ok", query |-> query, t1 |-> t1, t2 |-> t2,
                      subtype_filter |-> subtype_filter, limit |-> limit,
                      lo |-> result(t1), hi |-> result(t2)]
    /\ UNCHANGED <<buildVars, seen, expand, ontVars, catalog, tool, opsVars>>

----------------------------------------------------------------------------
(* The shell scripts. A run of a script is followed from its first line to *)
(* its end; what the commands it starts do is the input of the run. *)

\* a script is started in a shell that has run none
UnchangedByScript == UNCHANGED <<buildVars, seen, expand, ontVars, toolVars, pageVars>>

\* the exit status of ((expression)): 1 when the expression's value is 0
ArithStatus(value) == IF value = 0 THEN 1 ELSE 0

(* scripts/run_generate_insights_tests.sh *)

tests ==
    <<"test_simple_line_chart", "test_simple_bar_chart", "test_stacked_bar_chart",
      "test_grouped_bar_chart", "test_pie_chart">>

\* the for loop from test i on, under set -e. st holds the shell's variables,
\* the tests run so far, the lines printed and the exit status (-1: running);
\* pytest[i] tells whether uv run pytest of test i exits 0.
\* ((passed++)) and ((failed++)) yield the value before the increment, and
\* under set -e a command that exits non-zero ends the script with its status.
RECURSIVE ForTests(_, _, _)
ForTests(i, st, pytest) ==
    IF i > Len(tests) THEN st
    ELSE LET test == tests[i]
             ran  == [st EXCEPT !.ran = Append(@, test)]
         IN  IF pytest[i]
             THEN LET counted == [ran EXCEPT !.out = Append(@, <<"PASSED", test>>),
                                             !.passed = @ + 1]
                  IN  IF ArithStatus(st.passed) # 0
                      THEN [counted EXCEPT !.status = ArithStatus(st.passed)]
                      ELSE ForTests(i + 1, counted, pytest)
             ELSE LET counted == [ran EXCEPT !.out = Append(@, <<"FAILED", test>>),
                                             !.failed = @ + 1]
                  IN  IF ArithStatus(st.failed) # 0
                      THEN [counted EXCEPT !.status = ArithStatus(st.failed)]
                      ELSE ForTests(i + 1,
                                    [counted EXCEPT !.failed_tests = Append(@, test)],
                                    pytest)

\* the summary and the exit at the end of the script
Summary(st) ==
    [st EXCEPT !.out = @ \o << <<"Total tests", Len(tests)>>, <<"Passed", st.passed>>,
                                <<"Failed", st.failed>> >>,
               !.status = IF st.failed > 0 THEN 1 ELSE 0]

RunGenerateInsightsTests ==
    /\ sh = NoRun
    /\ \E pytest \in [DOMAIN tests -> BOOLEAN] :
         LET start == [script |-> "run_generate_insights_tests", pytest |-> pytest,
                       passed |-> 0, failed |-> 0, failed_tests |-> <<>>,
                       ran |-> <<>>, out |-> <<>>, status |-> -1]
             loop  == ForTests(1, start, pytest)
         IN  sh' = IF loop.status = -1 THEN Summary(loop) ELSE loop
    /\ UNCHANGED dbs
    /\ UnchangedByScript

(* experiments/run_evals.sh, and its version with run_and_time *)

Evaluations ==
    <<"eval_data_interpretation.py",
      "eval_dataset_identification.py S2 T1-02 TCL",
      "eval_dataset_identification.py S2 T1-07 DIST & LDACS",
      "eval_gadm.py">>

\* how a uv run command ends: 0, an error, or killed by Ctrl-C (128 + SIGINT)
ExitStatuses == {0, 1, 130}

\* set -uo pipefail without -e, trap ':' INT: the script goes on to the next
\* command whatever the status of the last one, and after a Ctrl-C
RECURSIVE RunCommands(_, _, _)
RunCommands(i, st, timed) ==
    IF i > Len(Evaluations) THEN st
    ELSE LET header == <<"Running", Evaluations[i]>>
             lines  == IF timed THEN <<header, <<"Elapsed time", Evaluations[i]>> >>
                       ELSE <<header>>
         IN  RunCommands(i + 1,
                         [st EXCEPT !.ran = Append(@, Evaluations[i]), !.out = @ \o lines],
                         timed)

Completed == <<"All evaluations completed successfully.">>

RunEvals ==
    /\ sh = NoRun
    /\ \E timed \in BOOLEAN, env_set \in BOOLEAN,
          results \in [DOMAIN Evaluations -> ExitStatuses] :
         LET start == [script |-> "run_evals", timed |-> timed, env_set |-> env_set,
                       results |-> results, ran |-> <<>>, out |-> <<>>, status |-> -1]
             done  == RunCommands(1, start, timed)
         IN  sh' = IF env_set
                   THEN [done EXCEPT !.out = Append(@, Completed), !.status = 0]
                   \* : "${LANGFUSE_HOST?Error: ...}" ends the script
                   ELSE [start EXCEPT !.out = << <<"Error: not set">> >>, !.status = 1]
    /\ UNCHANGED dbs
    /\ UnchangedByScript

(* stac/global_cog_creation/merge_global_land_cover.sh *)

\* for YEAR in {2016..2024}
LoopYears == 2016..2024

\* the years the help text and the closing message name
AnnouncedYears == 2015..2024

IsOption(arg) == Len(arg) > 0 /\ arg[1] = "-"

\* the while loop over the arguments: the directory, or the exit it ends in
RECURSIVE ParseArguments(_, _)
ParseArguments(args, LOCAL_DIR) ==
    IF args = <<>>
    THEN IF LOCAL_DIR = <<>>
         THEN [exit |-> 1, out |-> <<"Error: LOCAL_DIR is required", "show_help">>]
         ELSE [exit |-> -1, out |-> <<>>, LOCAL_DIR |-> LOCAL_DIR]
    ELSE IF Head(args) \in {<<"-", "h">>, <<"-", "-", "h", "e", "l", "p">>}
    THEN [exit |-> 0, out |-> <<"show_help">>]
    ELSE IF IsOption(Head(args))
    THEN [exit |-> 1, out |-> <<"Error: Unknown option", "show_help">>]
    ELSE IF LOCAL_DIR = <<>>
    THEN ParseArguments(Tail(args), Head(args))
    ELSE [exit |-> 1, out |-> <<"Error: Multiple directories specified", "show_help">>]

AllProcessed == "All years 2015 to 2024 have been processed"

\* the command lines the script is started with in this model
ArgumentLists ==
    { <<>>, << <<"-", "h">> >>, << <<"-", "x">> >>, << <<"d">> >>,
      << <<"d">>, <<"e">> >>, << <<"d">>, <<"-", "-", "h", "e", "l", "p">> >> }

\* failing: the years whose download or conversion fails (the script has no
\* set -e and goes on)
MergeGlobalLandCover ==
    /\ sh = NoRun
    /\ \E args \in ArgumentLists, failing \in SUBSET {2016, 2020, 2024} :
         LET parsed == ParseArguments(args, <<>>)
             base   == [script |-> "merge_global_land_cover", args |-> args,
                        failing |-> failing, processed |-> {}, files |-> {}]
         IN  sh' = IF parsed.exit # -1
                   THEN base @@ [out |-> parsed.out, status |-> parsed.exit]
                   ELSE [base EXCEPT !.processed = LoopYears,
                                     !.files = LoopYears \ failing]
                        @@ [out |-> <<AllProcessed>>, status |-> 0]
    /\ UNCHANGED dbs
    /\ UnchangedByScript

(* db/init-multiple-dbs.sh and its other versions *)

\* ${APP_DB:-zeno-data} and ${LANGFUSE_DB:-langfuse}, in the order of the script
Databases == <<"zeno-data", "langfuse">>

\* the versions of the script: SELECT ... WHERE NOT EXISTS ... \gexec; plain
\* CREATE DATABASE; CREATE DATABASE inside a DO block
InitVersions == {"gexec", "create", "do_block"}

\* psql's exit status when a statement failed under ON_ERROR_STOP
PsqlScriptError == 3

\* SELECT 'CREATE DATABASE ...' WHERE NOT EXISTS (...) \gexec, for each name:
\* the statement is built and run only for a name that is missing
Gexec(existing) == [dbs |-> existing \cup Range(Databases), status |-> 0]

\* CREATE DATABASE for each name: an existing name is an error, and psql stops
\* at the first error
RECURSIVE CreateDatabases(_, _)
CreateDatabases(i, existing) ==
    IF i > Len(Databases) THEN [dbs |-> existing, status |-> 0]
    ELSE IF Databases[i] \in existing
    THEN [dbs |-> existing, status |-> PsqlScriptError]
    ELSE CreateDatabases(i + 1, existing \cup {Databases[i]})

\* DO $$ ... IF NOT EXISTS ... THEN CREATE DATABASE ... $$: CREATE DATABASE
\* cannot be executed from a function, so the block fails at the first name
\* that is missing and creates nothing
DoBlock(existing) ==
    IF Range(Databases) \subseteq existing
    THEN [dbs |-> existing, status |-> 0]
    ELSE [dbs |-> existing, status |-> PsqlScriptError]

\* the script is run when the server starts, and may be run again
InitMultipleDbs(version) ==
    /\ sh = NoRun \/ sh.script = "init-multiple-dbs"
    /\ LET psql == CASE version = "gexec" -> Gexec(dbs)
                     [] version = "create" -> CreateDatabases(1, dbs)
                     [] version = "do_block" -> DoBlock(dbs)
       IN  /\ dbs' = psql.dbs
           \* set -e, and psql is the last command: its status is the script's
           /\ sh' = [script |-> "init-multiple-dbs", version |-> version,
                     before |-> dbs, status |-> psql.status]
    /\ UnchangedByScript

----------------------------------------------------------------------------
(* The WebSocket test page *)

UnchangedByPage == UNCHANGED <<buildVars, seen, expand, ontVars, toolVars, shellVars>>

\* what the user has typed into the client id field, trimmed
ClientIds == {"", "a", "b"}

\* ws.close(): a socket that is connecting or open starts closing
CloseSocket(socks, i) ==
    IF i # 0 /\ socks[i] \in {"CONNECTING", "OPEN"}
    THEN [socks EXCEPT ![i] = "CLOSING"]
    ELSE socks

\* connectionForm's submit handler
Submit(clientId) ==
    /\ Len(sockets) < MaxSockets
    /\ IF clientId = ""
       THEN \* alert("Please enter a Client ID"); return
            UNCHANGED pageVars
       ELSE /\ connectedClientId' = clientId
            /\ sockets' = Append(CloseSocket(sockets, ws), "CONNECTING")
            /\ ws' = Len(sockets) + 1
            /\ UNCHANGED <<connectionStatus, messages>>
    /\ UnchangedByPage

\* logMessage(senderType, content)
LogMessage(senderType, content) ==
    messages' = Append(messages, <<senderType, content>>)

\* the connection of socket i is established: its onopen handler runs
OnOpen(i) ==
    /\ i \in DOMAIN sockets
    /\ sockets[i] = "CONNECTING"
    /\ sockets' = [sockets EXCEPT ![i] = "OPEN"]
    /\ connectionStatus' = "Connected"
    /\ LogMessage("system", "Connected to server.")
    /\ UNCHANGED <<ws, connectedClientId>>
    /\ UnchangedByPage

\* socket i is closed (the connection failed, the server or the network
\* closed it, or the closing the page asked for is done): its onclose
\* handler runs
OnClose(i) ==
    /\ i \in DOMAIN sockets
    /\ sockets[i] \in {"CONNECTING", "OPEN", "CLOSING"}
    /\ sockets' = [sockets EXCEPT ![i] = "CLOSED"]
    /\ connectionStatus' = "Disconnected"
    /\ LogMessage("system", "Disconnected from server.")
    /\ UNCHANGED <<ws, connectedClientId>>
    /\ UnchangedByPage

----------------------------------------------------------------------------
(* Initial states: a database holding the loaded source tables *)

\* the GADM administrative levels present in the loaded data
Levels == {0, 1}

RowBody(v, s) ==
    IF s = "gadm"
    THEN { [comps |-> <<>>, name |-> n, subtype |-> GadmSubtypes[l + 1], geometry |-> g] :
             n \in GadmNames, l \in Levels, g \in Geoms \cup {NullGeom} }
    ELSE { IF v = "split"
           THEN StandardizedRow(s, [comps |-> c, name |-> "", subtype |-> "", geometry |-> g])
           ELSE [comps |-> c, name |-> "", subtype |-> "", geometry |-> g] :
             c \in CompPool, g \in Geoms \cup {NullGeom} }

\* the ingestion gives the records of a table the ids 1, 2, ...
TablesOf(v, s, n) ==
    { [i \in 1..n |-> [id |-> i] @@ f[i]] : f \in [1..n -> RowBody(v, s)] }

SourceTables(v) ==
    { t \in UNION { [gadm : TablesOf(v, "gadm", n[1]), kba : TablesOf(v, "kba", n[2]),
                     landmark : TablesOf(v, "landmark", n[3]),
                     wdpa : TablesOf(v, "wdpa", n[4])] :
                    n \in { m \in (0..MaxRows) \X (0..MaxRows) \X (0..MaxRows) \X (0..MaxRows) :
                              m[1] + m[2] + m[3] + m[4] <= MaxRows } } : TRUE }

\* no query has been made yet
\* no query has been made
QueriesIdle ==
    /\ seen = NoCall
    /\ expand = NoCall
    /\ found = NoCall
    /\ again = NoCall
    /\ tool = NoCall
    /\ pair = NoCall

\* no script has been run against a server without the two databases
NoShell ==
    /\ dbs = {}
    /\ sh = NoRun

\* the page as loaded: let ws; connectedClientId = ''; status Not Connected
NoPage ==
    /\ ws = 0
    /\ sockets = <<>>
    /\ connectionStatus = "Not Connected"
    /\ connectedClientId = ""
    /\ messages = <<>>

QueryInit == QueriesIdle /\ NoShell /\ NoPage

\* the Ontario tables and the matcher's places are empty
NoAreas ==
    /\ ont = [t \in Range(OntTypes) |-> <<>>]
    /\ catalog = <<>>

\* a freshly loaded database, before the processing script has run
BuildInit ==
    /\ variant \in {"split", "single"}
    /\ src \in SourceTables(variant)
    /\ geomcol = [s \in Sources |-> TRUE]
    /\ std = [s \in Sources |-> variant = "split" \/ s = "gadm"]
    /\ gadm_plus = NoTable
    /\ geometries = NoTable
    /\ gpBuild = 0
    /\ geoBuild = 0
    /\ pc = "idle"
    /\ run = 0
    /\ errored = FALSE

Init == BuildInit /\ QueryInit /\ NoAreas

\* the statements of the processing script
Statements ==
    \/ Start
    \/ \E s \in Derived : Standardize(s)
    \/ DropGadmPlus
    \/ DropGeometries
    \/ CreateGeometries
    \/ \E s \in Sources : DropGeometryColumn(s)
    \/ CreateGadmPlus
    \/ CreateIndexes

Next ==
    \/ Statements
    \/ Ingest
    \/ ReadTables

vars == <<buildVars, queryVars>>

Spec == Init /\ [][Next]_vars

\* the script alone, on the data as loaded: no reader, no second ingestion
BuildSpec == Init /\ [][Statements]_vars

----------------------------------------------------------------------------
(* Subregion queries against a processed database *)

\* the ids asked for: those of the table, and one it does not hold
AoiIds(a) == 1..(Len(src[a]) + 1)

\* the database after a run of the split script: after the first run, or
\* after a second run on the same raw data that went on past its errors
ExpandInit ==
    /\ variant = "split"
    /\ src \in SourceTables(variant)
    /\ geomcol = [s \in Sources |-> FALSE]
    /\ std = [s \in Sources |-> TRUE]
    /\ run \in 1..2
    /\ gadm_plus = RowNumber(UnionAll([s \in Sources |-> MetadataBranch(s)]))
    /\ gpBuild = run
    /\ geometries = IF run = 1 THEN RowNumber(UnionAll([s \in Sources |-> GeometryBranch(s)])) ELSE NoTable
    /\ geoBuild = IF run = 1 THEN run ELSE 0
    /\ errored = (run = 2)
    /\ pc = "done"
    /\ QueryInit
    /\ NoAreas

ExpandNext ==
    \E a \in Sources, t \in Derived :
        \E i \in AoiIds(a) : ExpandSubregion(a, i, t)

ExpandSpec == ExpandInit /\ [][ExpandNext]_vars

\* under Spec: the tables a finished run of the split script leaves are those
\* ExpandSpec starts with
ExpandInitReached ==
    (variant = "split" /\ pc = "done") =>
        /\ gadm_plus = RowNumber(UnionAll([s \in Sources |-> MetadataBranch(s)]))
        /\ geometries \in {RowNumber(UnionAll([s \in Sources |-> GeometryBranch(s)])), NoTable}
        /\ geometries = NoTable <=> errored

----------------------------------------------------------------------------
(* Builds over one raw record whose name components may be NULL or empty *)

\* each of the three components is NULL, the empty string, or a text
CompChoices ==
    { <<a, b, c>> : a \in {NullText, Text(""), Text("Serra")},
                    b \in {NullText, Text(""), Text("Range")},
                    c \in {NullText, Text(""), Text("BRA")} }

\* one record, with id 1, in the table of one derived source
OneRecord(v, s) ==
    { <<[id |-> 1] @@
        (IF v = "split"
         THEN StandardizedRow(s, [comps |-> c, name |-> "", subtype |-> "", geometry |-> g])
         ELSE [comps |-> c, name |-> "", subtype |-> "", geometry |-> g])>> :
      c \in CompChoices, g \in {Cells, NullGeom} }

NameInit ==
    /\ variant \in {"split", "single"}
    /\ \E s \in Derived :
         \E t \in OneRecord(variant, s) :
            src = [x \in Sources |-> IF x = s THEN t ELSE <<>>]
    /\ geomcol = [s \in Sources |-> TRUE]
    /\ std = [s \in Sources |-> variant = "split" \/ s = "gadm"]
    /\ gadm_plus = NoTable
    /\ geometries = NoTable
    /\ gpBuild = 0
    /\ geoBuild = 0
    /\ pc = "idle"
    /\ run = 0
    /\ errored = FALSE
    /\ QueryInit
    /\ NoAreas

NameSpec == NameInit /\ [][Next]_vars

----------------------------------------------------------------------------
(* Searches of the Ontario area tables *)

\* the names, acronyms and queries used in this model
NamePool == { <<"a", "b">>, <<"b", "a", "b", "a">>, <<"A", "b", "a">> }
AcronymPool == { NullText, Text(<<"b", "b">>) }
QueryPool == { <<>>, <<"a", "b", "a">>, <<"b", "b">>, <<"_">> }

AreaTypeInputs ==
    { NullTypes, TypeArray({}), TypeArray({"municipality"}),
      TypeArray({"provincial_park", "conservation_reserve"}) }

RegionInputs == { NullText, Text("Northern Ontario") }

TypeIdx(t) == CHOOSE i \in DOMAIN OntTypes : OntTypes[i] = t

OntRowKinds ==
    { k \in [type : Range(OntTypes), name : NamePool, acronym : AcronymPool] :
        k.type # "conservation_authority" => k.acronym = NullText }

\* the rows in the order they were inserted, table by table
OntLoads ==
    { l \in UNION { [1..n -> OntRowKinds] : n \in 0..MaxOntRows } :
        \A i \in 1..(Len(l) - 1) : TypeIdx(l[i].type) <= TypeIdx(l[i + 1].type) }

\* id SERIAL PRIMARY KEY: the rows of a table are numbered as they come
OntTable(load, t) ==
    LET sel == SelectSeq(load, LAMBDA k : k.type = t)
    IN  [i \in DOMAIN sel |-> [id |-> i, name |-> sel[i].name, acronym |-> sel[i].acronym]]

\* a database whose source tables are empty and unprocessed
EmptyDatabase ==
    /\ variant = "split"
    /\ src = [s \in Sources |-> <<>>]
    /\ geomcol = [s \in Sources |-> TRUE]
    /\ std = [s \in Sources |-> TRUE]
    /\ gadm_plus = NoTable
    /\ geometries = NoTable
    /\ gpBuild = 0
    /\ geoBuild = 0
    /\ pc = "idle"
    /\ run = 0
    /\ errored = FALSE

SearchInit ==
    /\ EmptyDatabase
    /\ QueryInit
    /\ \E l \in OntLoads : ont = [t \in Range(OntTypes) |-> OntTable(l, t)]
    /\ catalog = <<>>

\* one call is followed in each behaviour: the function only reads
SearchNext ==
    \E q \in QueryPool, ts \in AreaTypeInputs, r \in RegionInputs, n \in 0..MaxLimit :
        SearchOntarioAreas(q, ts, r, n)

SearchSpec == SearchInit /\ [][SearchNext]_vars

\* A search and the same search repeated
RepeatNext ==
    \/ \E q \in QueryPool, ts \in AreaTypeInputs, n \in 0..MaxLimit :
          SearchOntarioAreas(q, ts, NullText, n)
    \/ SearchOntarioAreasAgain

RepeatSpec == SearchInit /\ [][RepeatNext]_vars

\* Searches by region: each row of a searched table lies in one region of
\* Ontario (its geometry is within the geometry of that region)
RegionPool == { "Northern Ontario", "Southern Ontario" }

RegionRowKinds ==
    [type : Range(SearchedTypes), name : NamePool, acronym : {NullText}, region : RegionPool]

RegionLoads ==
    { l \in UNION { [1..n -> RegionRowKinds] : n \in 0..MaxOntRows } :
        \A i \in 1..(Len(l) - 1) : TypeIdx(l[i].type) <= TypeIdx(l[i + 1].type) }

RegionTable(load, t) ==
    LET sel == SelectSeq(load, LAMBDA k : k.type = t)
    IN  [i \in DOMAIN sel |->
            [id |-> i, name |-> sel[i].name, acronym |-> sel[i].acronym,
             region |-> sel[i].region]]

RegionInit ==
    /\ EmptyDatabase
    /\ QueryInit
    /\ \E l \in RegionLoads : ont = [t \in Range(OntTypes) |-> RegionTable(l, t)]
    /\ catalog = <<>>

RegionNext ==
    \E q \in QueryPool, r \in RegionInputs, n \in 0..MaxLimit :
        SearchOntarioAreas(q, NullTypes, r, n)

RegionSpec == RegionInit /\ [][RegionNext]_vars

----------------------------------------------------------------------------
(* Calls of the location tool and of the matcher *)

PlaceSubtypes == {"country", "state"}

Places ==
    UNION { { [i \in 1..n |-> [id |-> i] @@ f[i]] :
                f \in [1..n -> [name : NamePool, subtype : PlaceSubtypes]] } :
            n \in 0..MaxPlaces }

ThresholdInputs == { Omitted, <<-1>>, <<0>>, <<70>>, <<100>>, <<101>> }

SearchThresholds == {0, 30, 70, 100}

FilterInputs == { {}, {"state"} }

ToolInit ==
    /\ EmptyDatabase
    /\ QueryInit
    /\ ont = [t \in Range(OntTypes) |-> <<>>]
    /\ catalog \in Places

\* one call is followed in each behaviour: the calls only read
ToolNext ==
    \/ \E q \in QueryPool, t \in ThresholdInputs, f \in BOOLEAN : LocationTool(q, t, f)
    \/ \E q \in QueryPool, t1, t2 \in SearchThresholds, sf \in FilterInputs,
          n \in 0..MaxLimit : SearchTwice(q, t1, t2, sf, n)

ToolSpec == ToolInit /\ [][ToolNext]_vars

----------------------------------------------------------------------------
(* Queries while the script runs: one country with one KBA inside it, and *)
(* one provincial park *)

QueryDbInit ==
    /\ variant \in {"split", "single"}
    /\ src = [s \in Sources |->
                CASE s = "gadm" -> <<[id |-> 1, comps |-> <<>>, name |-> "Brazil",
                                      subtype |-> "country", geometry |-> Cells]>>
                  [] s = "kba" ->
                       LET raw == [comps |-> <<Text("Serra"), Text("Range"), Text("BRA")>>,
                                   name |-> "", subtype |-> "", geometry |-> {1}]
                       IN  <<[id |-> 1] @@
                             (IF variant = "split" THEN StandardizedRow("kba", raw) ELSE raw)>>
                  [] OTHER -> <<>>]
    /\ geomcol = [s \in Sources |-> TRUE]
    /\ std = [s \in Sources |-> variant = "split" \/ s = "gadm"]
    /\ gadm_plus = NoTable
    /\ geometries = NoTable
    /\ gpBuild = 0
    /\ geoBuild = 0
    /\ pc = "idle"
    /\ run = 0
    /\ errored = FALSE
    /\ QueryInit
    /\ ont = [t \in Range(OntTypes) |->
                IF t = "provincial_park"
                THEN <<[id |-> 1, name |-> <<"a", "b">>, acronym |-> NullText]>>
                ELSE <<>>]
    /\ catalog = <<>>

QueryNext ==
    \/ Next
    \/ \E i \in AoiIds("gadm") : ExpandSubregion("gadm", i, "kba")
    \/ \E q \in QueryPool : SearchOntarioAreas(q, NullTypes, NullText, 1)

QuerySpec == QueryDbInit /\ [][QueryNext]_vars

----------------------------------------------------------------------------
(* Runs of the shell scripts *)

ShellInit ==
    /\ EmptyDatabase
    /\ QueriesIdle
    /\ NoAreas
    /\ NoPage
    /\ sh = NoRun
    /\ dbs \in SUBSET Range(Databases)

ShellNext ==
    \/ RunGenerateInsightsTests
    \/ RunEvals
    \/ MergeGlobalLandCover
    \/ \E version \in InitVersions : InitMultipleDbs(version)

ShellSpec == ShellInit /\ [][ShellNext]_vars

----------------------------------------------------------------------------
(* The page in a browser *)

PageInit ==
    /\ EmptyDatabase
    /\ QueriesIdle
    /\ NoAreas
    /\ NoShell
    /\ NoPage

PageNext ==
    \/ \E clientId \in ClientIds : Submit(clientId)
    \/ \E i \in 1..MaxSockets : OnOpen(i)
    \/ \E i \in 1..MaxSockets : OnClose(i)

PageSpec == PageInit /\ [][PageNext]_vars

----------------------------------------------------------------------------
(* Properties of the catalog build *)

RowsOf(table) == IF table = NoTable THEN {} ELSE Range(table)

GeometryRowsFor(source, src_id) ==
    { g \in RowsOf(geometries) : g.source = source /\ g.src_id = src_id }

\* C1: after a completed run of create_gadm_plus.sql, every row of gadm_plus
\* has exactly one row of geometries with the same (source, src_id).
C1_EveryCatalogRowHasOneGeometry ==
    (variant = "split" /\ pc = "done") =>
        \A c \in RowsOf(gadm_plus) :
            Cardinality(GeometryRowsFor(c.source, c.src_id)) = 1

\* C2: once a catalog has been built, no reader of the two tables finds one of
\* them missing or finds them to come from different runs of the script.
C2_ReadersSeeWholeCatalog ==
    (variant = "split" /\ seen # NoCall) =>
        /\ seen.gadm_plus
        /\ seen.geometries
        /\ seen.gpBuild = seen.geoBuild

FlagsSet(c) ==
    { f \in {"is_gadm", "is_kba", "is_landmark", "is_wdpa"} : c[f] }

\* C3: every row of gadm_plus, in the split and in the single-table build, has
\* exactly one provenance flag set, the one its source names.
C3_ExactlyOneProvenanceFlag ==
    \A c \in RowsOf(gadm_plus) :
        /\ c.source \in Sources
        /\ FlagsSet(c) = {"is_" \o c.source}

C3_Witness ==
    /\ pc = "done"
    /\ \E c, d \in RowsOf(gadm_plus) : c.source = "kba" /\ d.source = "wdpa"

----------------------------------------------------------------------------
(* Properties of the subregion query *)

AoiPresent == GeometryRowsFor(expand.aoi_source, expand.aoi_id) # {}

\* the catalog entries of the target subtype whose geometry the AOI contains
ContainedEntries ==
    { <<c.source, c.src_id>> : c \in
        { d \in RowsOf(gadm_plus) :
            /\ d.subtype = SubtypeOf(expand.target)
            /\ \E g \in GeometryRowsFor(d.source, d.src_id),
                  a \in GeometryRowsFor(expand.aoi_source, expand.aoi_id) :
                  g.geometry \subseteq a.geometry } }

ReturnedEntries == { <<expand.target, r.id>> : r \in Range(expand.rows) }

SplitJoined ==
    { m @@ [geometry |-> g.geometry] :
        <<m, g>> \in { <<x, y>> \in RowsOf(gadm_plus) \X RowsOf(geometries) :
                          x.source = y.source /\ x.src_id = y.src_id } }

\* the rows the single-table script builds from the same source tables
SingleBuilt == Range(RowNumber(UnionAll([s \in Sources |-> SingleBranch(s)])))

\* C24: the split build loses nothing of the single-table build: after a
\* complete run of the split script, gadm_plus joined with geometries on
\* (source, src_id) gives the rows (id, source, src_id, name, subtype,
\* geometry, flags) of the single-table build.
C24_SplitJoinEqualsSingleTable ==
    (variant = "split" /\ pc = "done" /\ ~errored) => SplitJoined = SingleBuilt

----------------------------------------------------------------------------
(* Properties of search_ontario_areas *)

Searched == found.outcome = "ok"

\* the rows of the searched tables whose name contains the query
SubstringRows(search_query) ==
    UNION { { <<t, ont[t][i].id>> :
                i \in { j \in DOMAIN ont[t] : ContainsText(ont[t][j].name, search_query) } } :
            t \in Range(SearchedTypes) }

ReturnedRows == { <<found.rows[i].type, found.rows[i].id>> : i \in DOMAIN found.rows }

\* C4: every row whose name contains the query as a case-insensitive substring
\* is in the result, whatever the scores of the other rows, provided the
\* substring-matching rows are no more than the limit.
C4_SubstringRowsAlwaysReturned ==
    (/\ Searched
     /\ found.search_query # <<>>
     /\ found.area_types.null
     /\ Cardinality(SubstringRows(found.search_query)) <= found.limit_count)
    => SubstringRows(found.search_query) \subseteq ReturnedRows

\* C6: a search with the empty query ends in InvalidArgument and returns no row.
C6_EmptyQueryIsInvalidArgument ==
    (found.outcome # "none" /\ found.search_query = <<>>)
    => (found.outcome = "InvalidArgument" /\ found.rows = <<>>)

\* C8, as amended: the result is ordered by non-increasing similarity to the
\* query.
C8_OrderedByNonIncreasingScore ==
    Searched =>
        \A i, j \in DOMAIN found.rows :
            i < j => ~RelGreater(Similarity(found.rows[j].name, found.search_query),
                                 Similarity(found.rows[i].name, found.search_query))

C8_Witness ==
    /\ Searched
    /\ Len(found.rows) >= 2
    /\ RelGreater(found.rows[1].relevance, found.rows[2].relevance)

\* C8, as claimed: non-increasing score, and two results of equal score come
\* the more specific subtype first.
C8_TiesBySubtypeSpecificity ==
    (Searched /\ found.search_query # <<>>) =>
        \A i \in 1..(Len(found.rows) - 1) :
            \/ RelGreater(found.rows[i].relevance, found.rows[i + 1].relevance)
            \/ /\ RelEqual(found.rows[i].relevance, found.rows[i + 1].relevance)
               /\ Specificity(found.rows[i].type) >= Specificity(found.rows[i + 1].type)

NamedRows(search_query) ==
    UNION { { <<t, ont[t][i].id>> :
                i \in { j \in DOMAIN ont[t] : ContainsText(ont[t][j].name, search_query) } } :
            t \in Range(OntTypes) }

\* C22: the search is unified across all Ontario area types: with area_types
\* NULL, a row of any area table with a name column (parks, reserves,
\* authorities, watersheds, municipalities, forest management units, water
\* bodies, wetlands) whose name contains the query is returned when the limit
\* leaves room for it.
C22_UnifiedAcrossAllAreaTypes ==
    (/\ Searched
     /\ found.search_query # <<>>
     /\ found.area_types.null
     /\ Len(found.rows) < found.limit_count)
    => NamedRows(found.search_query) \subseteq ReturnedRows

\* the region the returned row lies in
RegionOf(row) ==
    LET r == CHOOSE x \in Range(ont[row.type]) : x.id = row.id
    IN  r.region

\* C23: a search called with a region returns only areas that lie within that
\* region.
C23_ReturnedAreasLieInRegion ==
    (Searched /\ found.search_query # <<>> /\ found.region # NullText) =>
        \A i \in DOMAIN found.rows : RegionOf(found.rows[i]) = found.region[1]

\* C25: the search is deterministic on an unchanged database: the same call
\* made again returns the same rows in the same order, also when rows of equal
\* relevance meet at the limit.
C25_SameCallSameRows ==
    (again # NoCall /\ found.search_query # <<>>) => again.rows = found.rows

----------------------------------------------------------------------------
(* Properties of the location tool and of the matcher *)

RowSet(rows) == { rows[i] : i \in DOMAIN rows }

NotTruncated ==
    Len(Candidates(pair.query, pair.t1, pair.subtype_filter)) <= pair.limit

C7_ThresholdRangeEnforced ==
    tool.outcome # "none" =>
        IF tool.threshold = Omitted
        THEN tool.matcher_called /\ tool.matcher_threshold = 70
        ELSE IF tool.threshold[1] \in 0..100
        THEN tool.matcher_called /\ tool.matcher_threshold = tool.threshold[1]
        ELSE /\ tool.outcome = "raised"
             /\ ~tool.matcher_called
             /\ tool.rows = <<>>

C7_Witness ==
    /\ tool.outcome = "raised"
    /\ tool.threshold = <<101>>
    /\ catalog # <<>>

----------------------------------------------------------------------------
(* Properties of the names *)

\* the texts of a record's components that are neither NULL nor empty
RECURSIVE NonEmpty(_)
NonEmpty(comps) ==
    IF comps = <<>> THEN <<>>
    ELSE (IF Head(comps) = NullText \/ Head(comps) = Text("") THEN <<>> ELSE Head(comps))
         \o NonEmpty(Tail(comps))

\* the raw record a catalog row was made from
RecordOf(c) == src[c.source][c.src_id]

DerivedRows == { c \in RowsOf(gadm_plus) : c.source \in Derived }

\* C11: the catalog name of a KBA, Landmark or WDPA record is its non-empty
\* components joined by ", " in their fixed order, the empty ones skipped.
C11_NameJoinsNonEmptyComponents ==
    \A c \in DerivedRows : c.name = Join(", ", NonEmpty(RecordOf(c).comps))

\* C12: every catalog entry has a non-empty name; a record whose components are
\* all empty is in the catalog, named by its source id.
C12_NameNeverEmpty ==
    /\ \A c \in RowsOf(gadm_plus) : c.name # ""
    /\ (gadm_plus # NoTable) =>
           \A s \in Derived : \A i \in DOMAIN src[s] :
               \E c \in RowsOf(gadm_plus) :
                   /\ c.source = s /\ c.src_id = src[s][i].id
                   /\ NonEmpty(src[s][i].comps) = <<>> => c.name = ToString(c.src_id)

----------------------------------------------------------------------------
(* Properties of a build and of a re-run *)

InTable(table, s, i) == \E r \in RowsOf(table) : r.source = s /\ r.src_id = i

\* C13: after a build, a record without geometry is in neither table, every
\* other record is in both, and the build has completed without error.
C13_RecordsWithoutGeometryDropped ==
    (variant = "split" /\ run = 1 /\ pc = "done") =>
        /\ ~errored
        /\ \A s \in Sources : \A i \in DOMAIN src[s] :
            IF src[s][i].geometry = NullGeom
            THEN ~InTable(gadm_plus, s, src[s][i].id) /\ ~InTable(geometries, s, src[s][i].id)
            ELSE InTable(gadm_plus, s, src[s][i].id) /\ InTable(geometries, s, src[s][i].id)

\* C15: a second run of the script on a processed database completes and
\* leaves geometries and gadm_plus present, with the rows of the first run.
C15_RerunRepeatable ==
    (variant = "split" /\ run >= 2 /\ pc \in {"done", "failed"}) =>
        /\ pc = "done"
        /\ ~errored
        /\ gadm_plus = RowNumber(UnionAll([s \in Sources |-> MetadataBranch(s)]))
        /\ geometries = RowNumber(UnionAll([s \in Sources |-> GeometryBranch(s)]))

\* the four sources in any order
SourceOrders == { [i \in DOMAIN SourceOrder |-> SourceOrder[p[i]]] : p \in Perms(Len(SourceOrder)) }

\* the SELECTs of the sources stacked in the given order
RECURSIVE Stacked(_, _)
Stacked(order, b) ==
    IF order = <<>> THEN <<>> ELSE b[Head(order)] \o Stacked(Tail(order), b)

WithoutId(r) == [f \in (DOMAIN r) \ {"id"} |-> r[f]]

DistinctIds(table) == Cardinality({ table[i].id : i \in DOMAIN table }) = Len(table)

\* C16: whatever the order in which the four sources are stacked, the build
\* gives the same catalog rows and the same geometry rows up to their ids, and
\* the ids of each table are distinct.
C16_AssemblyOrderIndependent ==
    (variant = "split" /\ pc = "done" /\ ~errored) =>
        LET meta     == [s \in Sources |-> MetadataBranch(s)]
            geom     == [s \in Sources |-> GeometryBranch(s)]
            rows(t)  == { WithoutId(t[i]) : i \in DOMAIN t }
            gpRows   == rows(gadm_plus)
            geoRows  == rows(geometries)
        IN  /\ DistinctIds(gadm_plus) /\ DistinctIds(geometries)
            /\ \A o \in SourceOrders :
                LET gp  == RowNumber(Stacked(o, meta))
                    geo == RowNumber(Stacked(o, geom))
                IN  /\ rows(gp) = gpRows /\ rows(geo) = geoRows
                    /\ DistinctIds(gp) /\ DistinctIds(geo)

C16_Witness ==
    /\ variant = "split" /\ pc = "done" /\ ~errored
    /\ \E c, d \in RowsOf(geometries) : c.source = "gadm" /\ d.source = "wdpa"
    /\ Len(gadm_plus) >= 2

\* C17: no two rows of gadm_plus and no two rows of geometries have the same
\* (source, src_id), also when two sources use the same id.
C17_SourceAndIdIsKey ==
    \A table \in {gadm_plus, geometries} :
        \A r1, r2 \in RowsOf(table) :
            (r1.source = r2.source /\ r1.src_id = r2.src_id) => r1 = r2

C17_Witness ==
    /\ pc = "done"
    /\ \E r1, r2 \in RowsOf(gadm_plus) : r1.source # r2.source /\ r1.src_id = r2.src_id
    /\ \E r1, r2 \in RowsOf(geometries) : r1.source # r2.source /\ r1.src_id = r2.src_id

----------------------------------------------------------------------------
(* Properties of the outcomes and of the effects of queries *)

\* C14: a call of the tool ends either in a list of matches, returned, or in
\* an error, raised and without rows; a failure is never a returned value.
C14_ListOrRaisedError ==
    tool.outcome # "none" =>
        \/ tool.outcome = "returned" /\ tool.value = "matches"
        \/ tool.outcome = "raised" /\ tool.rows = <<>>

\* a step in which a query is answered
QueryStep == seen' # seen \/ expand' # expand \/ found' # found

\* C18: a step that answers a query, with rows or with an error, changes no
\* row of the catalog, of the geometry table or of the area tables; the two
\* processed tables change in steps of the script only.
C18_QueriesArePureReads ==
    [][/\ QueryStep => UNCHANGED <<gadm_plus, geometries, src, ont, catalog>>
       /\ (gadm_plus' # gadm_plus \/ geometries' # geometries) => pc' # pc]_vars

C18_Witness ==
    /\ expand.outcome = "ok" /\ expand.rows # <<>>
    /\ found.outcome = "ok" /\ found.rows # <<>>
    /\ seen # NoCall
    /\ run = 2 /\ pc = "drop_geo"

\* C19: a query whose AOI (source, id) has no row in the geometry table is
\* answered with the empty list, not with an error.
C19_AbsentAoiGivesEmpty ==
    (expand.outcome # "none" /\ ~AoiPresent) =>
        /\ expand.outcome = "ok"
        /\ expand.rows = <<>>

\* C20: every returned row's name contains the query or is similar to it
\* above the cut-off; when no row is, the result is the empty list.
C20_ReturnedRowsPassAPass ==
    (Searched /\ found.search_query # <<>>) =>
        \A i \in DOMAIN found.rows :
            \/ ContainsText(found.rows[i].name, found.search_query)
            \/ AboveCutoff(Similarity(found.rows[i].name, found.search_query))

----------------------------------------------------------------------------
(* Properties of the shell scripts *)

Finished(script) == sh.script = script

\* the numbers n of the lines <<label, n>> the run printed
Printed(label) ==
    { sh.out[i][2] : i \in { j \in DOMAIN sh.out : sh.out[j][1] = label } }

\* C26: the test runner runs every test once whatever the outcomes, its
\* summary counts passed and failed tests that add up to the number of tests,
\* and it exits 0 exactly when no test failed.
C26_EveryTestRunAndCounted ==
    Finished("run_generate_insights_tests") =>
        /\ sh.ran = tests
        /\ \E p \in Printed("Passed"), f \in Printed("Failed") : p + f = Len(tests)
        /\ sh.status = 0 <=> \A i \in DOMAIN tests : sh.pytest[i]

\* C27: the evaluation script prints 'All evaluations completed
\* successfully.' only when all four evaluation commands were run and each
\* exited 0, not when one failed or was interrupted.
C27_CompletedOnlyAfterSuccess ==
    (Finished("run_evals") /\ \E i \in DOMAIN sh.out : sh.out[i] = Completed) =>
        /\ sh.ran = Evaluations
        /\ \A i \in DOMAIN Evaluations : sh.results[i] = 0

\* C28: a run of the land cover script in which every command succeeds
\* processes each year from 2015 to 2024 and leaves one file
\* global_land_cover_YYYY.tif for each of them before it prints its closing
\* message.
C28_AllTenYearsProcessed ==
    (/\ Finished("merge_global_land_cover")
     /\ sh.failing = {}
     /\ \E i \in DOMAIN sh.out : sh.out[i] = AllProcessed)
    => /\ sh.processed = AnnouncedYears
       /\ sh.files = AnnouncedYears

\* C29: the init script creates the application and the Langfuse database
\* only when missing: in each of its versions, a run against a server that
\* already has one of them exits 0 and leaves the existing databases as they
\* were, and the two databases exist afterwards.
C29_InitIsIdempotent ==
    (Finished("init-multiple-dbs") /\ sh.before # {}) =>
        /\ sh.status = 0
        /\ dbs = Range(Databases)

----------------------------------------------------------------------------
(* Properties of the WebSocket test page *)

\* no socket is connecting or closing: no open or close event is to come
NoEventPending == \A i \in DOMAIN sockets : sockets[i] \in {"OPEN", "CLOSED"}

\* C30: once no event is pending, the status the page shows agrees with the
\* current socket, Connected exactly when ws is open, also when the page
\* reconnected while the previous socket was still closing.
C30_StatusAgreesWithCurrentSocket ==
    (ws # 0 /\ NoEventPending) =>
        (connectionStatus = "Connected" <=> sockets[ws] = "OPEN")

====
